---- MODULE Spec2Model ----
(***************************************************************************)
(* Model of the challan OCR application (src/app.py): the Streamlit        *)
(* session around main(), the extraction call analyze_image_with_gemini    *)
(* and the submission call send_to_google_sheets, whose first half builds  *)
(* the 13-column rows and whose second half POSTs them and classifies the  *)
(* answer.                                                                 *)
(*                                                                         *)
(* A Python str is a sequence of one-character strings, so that strip(),   *)
(* float() and str() are computed character by character.  A JSON / Python *)
(* value is a tagged record (JStr, JNum, JNull, Absent).  A Python number  *)
(* is a decimal n / 10^k tagged int or float; the inputs keep to decimals  *)
(* that binary floating point represents exactly (k.0, k.5), to magnitudes *)
(* that repr() prints without an exponent, and to an alphabet in which     *)
(* "inf", "nan", exponents and digit underscores cannot be written.        *)
(***************************************************************************)
EXTENDS Integers, Sequences, FiniteSets, TLC

\* ------------------------------------------------------------------ bounds

MaxItems == 3       \* line items in one extracted document
MaxDay == 2         \* day of January 2024 up to which the clock runs
MaxChunks == 2      \* chunks of text in one answer of the sheet endpoint

\* ---------------------------------------------------------------- values

\* The element of a one-element set.  Only({F(x) : x \in {e}}) is F(e) with
\* e evaluated once, whatever the number of places where F reads x.
Only(S) == CHOOSE x \in S : TRUE

\* the tuples of at most n elements of S
RECURSIVE SeqsUpTo(_, _)
SeqsUpTo(S, n) ==
  IF n = 0 THEN {<<>>}
  ELSE SeqsUpTo(S, n - 1) \cup {Append(s, x) : s \in SeqsUpTo(S, n - 1), x \in S}

\* ------------------------------------------------------------ Python str

IsSpace(c) == c \in {" ", "\t", "\n"}

RECURSIVE lstrip(_)
lstrip(s) == IF s # <<>> /\ IsSpace(Head(s)) THEN lstrip(Tail(s)) ELSE s

RECURSIVE rstrip(_)
rstrip(s) ==
  IF s # <<>> /\ IsSpace(s[Len(s)]) THEN rstrip(SubSeq(s, 1, Len(s) - 1)) ELSE s

\* strip() that forgets the trailing whitespace
stripLeadingOnly(s) == lstrip(s)

\* str.strip(): leading and trailing whitespace removed
strip(s) == rstrip(lstrip(s))

Digits == <<"0", "1", "2", "3", "4", "5", "6", "7", "8", "9">>

IsDigit(c) == \E i \in 1..Len(Digits) : Digits[i] = c

DigitVal(c) == (CHOOSE i \in 1..Len(Digits) : Digits[i] = c) - 1

AllDigits(ds) == \A i \in 1..Len(ds) : IsDigit(ds[i])

RECURSIVE ToNat(_)
ToNat(ds) ==
  IF ds = <<>> THEN 0
  ELSE ToNat(SubSeq(ds, 1, Len(ds) - 1)) * 10 + DigitVal(ds[Len(ds)])

RECURSIVE NatStr(_)
NatStr(n) ==
  IF n < 10 THEN <<Digits[n + 1]>> ELSE NatStr(n \div 10) \o <<Digits[(n % 10) + 1]>>

RECURSIVE Pow10(_)
Pow10(k) == IF k = 0 THEN 1 ELSE 10 * Pow10(k - 1)

\* --------------------------------------------------------- Python numbers

PyInt(n) == [ty |-> "int", n |-> n, k |-> 0]

PyFloat(n, k) == [ty |-> "float", n |-> n, k |-> k]

Abs(n) == IF n < 0 THEN 0 - n ELSE n

\* float(s) of a str: optional sign, digits with at most one point and at
\* least one digit, surrounding whitespace ignored; anything else is a
\* ValueError.  FloatOfDigits reads the text b that follows the sign.
FloatOfDigits(neg, b) ==
  LET dots == {i \in 1..Len(b) : b[i] = "."}
      p == IF dots = {} THEN Len(b) + 1 ELSE CHOOSE i \in dots : TRUE
  IN Only({IF /\ Cardinality(dots) <= 1
              /\ AllDigits(ip)
              /\ AllDigits(fp)
              /\ Len(ip) + Len(fp) >= 1
             THEN [exc |-> "none",
                   v |-> PyFloat(IF neg THEN 0 - ToNat(ip \o fp) ELSE ToNat(ip \o fp),
                                 Len(fp))]
             ELSE [exc |-> "ValueError", v |-> PyInt(0)] :
           ip \in {SubSeq(b, 1, p - 1)}, fp \in {SubSeq(b, p + 1, Len(b))}})

float(s) ==
  Only({IF u # <<>> /\ Head(u) \in {"+", "-"}
          THEN FloatOfDigits(Head(u) = "-", Tail(u))
          ELSE FloatOfDigits(FALSE, u) :
        u \in {strip(s)}})

\* the subtraction with its operands exchanged
MinusReversed(a, b) ==
  LET K == IF a.k > b.k THEN a.k ELSE b.k
      n == b.n * Pow10(K - b.k) - a.n * Pow10(K - a.k)
  IN IF a.ty = "int" /\ b.ty = "int" THEN PyInt(n) ELSE PyFloat(n, K)

\* a - b on Python numbers: int - int is an int, anything else a float
Minus(a, b) ==
  LET K == IF a.k > b.k THEN a.k ELSE b.k
      n == a.n * Pow10(K - a.k) - b.n * Pow10(K - b.k)
  IN IF a.ty = "int" /\ b.ty = "int" THEN PyInt(n) ELSE PyFloat(n, K)

\* the comparison written >= 0
GreaterOrEqualZero(x) == x.n >= 0

GreaterThanZero(x) == x.n > 0

RECURSIVE Normal(_)
Normal(x) ==
  IF x.k > 0 /\ x.n % 10 = 0 THEN Normal([x EXCEPT !.n = x.n \div 10, !.k = x.k - 1])
  ELSE x

RECURSIVE PadLeft(_, _)
PadLeft(ds, w) == IF Len(ds) >= w THEN ds ELSE PadLeft(<<"0">> \o ds, w)

\* a rendering that drops the fraction of a whole number
strWhole(x) ==
  LET y == Normal(x)
      sign == IF y.n < 0 THEN <<"-">> ELSE <<>>
      m == Abs(y.n)
  IN IF x.ty = "int" \/ y.k = 0 THEN sign \o NatStr(m)
     ELSE sign \o NatStr(m \div Pow10(y.k)) \o <<".">> \o
          PadLeft(NatStr(m % Pow10(y.k)), y.k)

\* str(x): an int prints its digits, a float prints with a point and at
\* least one digit after it ("10.0", "5.5", "-4.0", "0.0").
str(x) ==
  LET y == Normal(x)
      sign == IF y.n < 0 THEN <<"-">> ELSE <<>>
      m == Abs(y.n)
  IN IF x.ty = "int" THEN sign \o NatStr(m)
     ELSE sign \o NatStr(m \div Pow10(y.k)) \o <<".">> \o
          (IF y.k = 0 THEN <<"0">> ELSE PadLeft(NatStr(m % Pow10(y.k)), y.k))

\* ----------------------------------------------------- JSON / Python values

JStr(s) == [t |-> "str", s |-> s, n |-> 0]

JNum(n) == [t |-> "num", s |-> <<>>, n |-> n]

JNull == [t |-> "null", s |-> <<>>, n |-> 0]

\* a key the dict does not hold
Absent == [t |-> "absent", s |-> <<>>, n |-> 0]

\* dict.get(key, default)
Get(d, key, default) == IF d[key].t = "absent" THEN default ELSE d[key]

EmptyText == <<>>

ZeroText == <<"0">>

ReceivedText == <<"R", "e", "c", "e", "i", "v", "e", "d">>

NotReceivedText == <<"N", "o", "t", " ", "R", "e", "c", "e", "i", "v", "e", "d">>

\* ------------------------------------------------------------- the clock

\* datetime.now(): a day of January 2024 and a second of that day
Instant(d, s) == [day |-> d, sod |-> s]

Pad2(n) == <<Digits[(n \div 10) + 1], Digits[(n % 10) + 1]>>

\* strftime("%Y-%m-%d")
FormatDate(t) == <<"2", "0", "2", "4", "-", "0", "1", "-">> \o Pad2(t.day)

\* strftime("%Y-%m-%d %H:%M:%S")
FormatTimestamp(t) ==
  FormatDate(t) \o <<" ">> \o Pad2(t.sod \div 3600) \o <<":">> \o
  Pad2((t.sod % 3600) \div 60) \o <<":">> \o Pad2(t.sod % 60)

\* the clock one second later
SecondLater(t) ==
  IF t.sod + 1 = 86400 THEN Instant(t.day + 1, 0) ELSE Instant(t.day, t.sod + 1)

\* ------------------------------------- send_to_google_sheets: row building

Raise(e) == [exc |-> e, skip |-> FALSE, row |-> <<>>]

\* lines 236 and 244: float(weight_received) if weight_received != '0' else 0
WeightReceivedNum(weight_received) ==
  IF weight_received # ZeroText THEN float(weight_received)
  ELSE [exc |-> "none", v |-> PyInt(0)]

\* the exceptions the two try blocks catch: except (ValueError, TypeError)
Caught == {"ValueError", "TypeError"}

\* lines 235-239
Status(weight_received) ==
  Only({IF r.exc \in Caught THEN [exc |-> "none", status |-> NotReceivedText]
        ELSE IF r.exc # "none" THEN [exc |-> r.exc, status |-> EmptyText]
        ELSE [exc |-> "none",
              status |-> IF GreaterThanZero(r.v) THEN ReceivedText ELSE NotReceivedText] :
        r \in {WeightReceivedNum(weight_received)}})

\* lines 242-247; the .strip() of the condition runs first and its
\* AttributeError on a value that is no str is not among the caught ones
Difference(item, weight_received) ==
  IF Get(item, "weight_sent", JStr(EmptyText)).t # "str"
    THEN [exc |-> "AttributeError", difference |-> PyInt(0)]
  ELSE Only({IF sent.exc \in Caught THEN [exc |-> "none", difference |-> PyInt(0)]
             ELSE IF sent.exc # "none" THEN [exc |-> sent.exc, difference |-> PyInt(0)]
             ELSE Only({IF recv.exc \in Caught
                          THEN [exc |-> "none", difference |-> PyInt(0)]
                        ELSE IF recv.exc # "none"
                          THEN [exc |-> recv.exc, difference |-> PyInt(0)]
                        ELSE [exc |-> "none", difference |-> Minus(sent.v, recv.v)] :
                        recv \in {WeightReceivedNum(weight_received)}}) :
             sent \in {IF strip(Get(item, "weight_sent", JStr(EmptyText)).s) # EmptyText
                         THEN float(Get(item, "weight_sent", JStr(ZeroText)).s)
                         ELSE [exc |-> "none", v |-> PyInt(0)]}})

\* lines 250-264
Row(challan_info, item, description, weight_received, status, difference, current_date, current_timestamp) ==
  << Get(challan_info.d, "challan_number", JStr(EmptyText)),
     Get(challan_info.d, "vendor_name", JStr(EmptyText)),
     JStr(description),
     Get(item, "weight_sent", JStr(EmptyText)),
     JStr(weight_received),
     JStr(status),
     JStr(EmptyText),
     JStr(str(difference)),
     Get(item, "number_of_bags", JStr(EmptyText)),
     Get(item, "plating_color", JStr(EmptyText)),
     JStr(EmptyText),
     JStr(current_date),
     JStr(current_timestamp) >>

\* a fallback row that reads the vendor under a key the dict does not hold
FallbackRowNoVendor(challan_info, current_date, current_timestamp) ==
  << Get(challan_info.d, "challan_number", JStr(EmptyText)),
     JStr(EmptyText),
     JStr(EmptyText),
     JStr(EmptyText),
     JStr(ZeroText),
     JStr(NotReceivedText),
     JStr(EmptyText),
     JStr(ZeroText),
     JStr(EmptyText),
     JStr(EmptyText),
     JStr(EmptyText),
     JStr(current_date),
     JStr(current_timestamp) >>

\* lines 269-283
FallbackRow(challan_info, current_date, current_timestamp) ==
  << Get(challan_info.d, "challan_number", JStr(EmptyText)),
     Get(challan_info.d, "vendor_name", JStr(EmptyText)),
     JStr(EmptyText),
     JStr(EmptyText),
     JStr(ZeroText),
     JStr(NotReceivedText),
     JStr(EmptyText),
     JStr(ZeroText),
     JStr(EmptyText),
     JStr(EmptyText),
     JStr(EmptyText),
     JStr(current_date),
     JStr(current_timestamp) >>

\* one pass of the loop body, lines 224-265
DeriveItem(item, challan_info, current_date, current_timestamp) ==
  LET d0 == Get(item, "description", JStr(EmptyText))
      w0 == Get(item, "weight_received", JStr(EmptyText))
  IN IF d0.t # "str" THEN Raise("AttributeError")
     ELSE IF strip(d0.s) = EmptyText THEN [exc |-> "none", skip |-> TRUE, row |-> <<>>]
     ELSE IF w0.t # "str" THEN Raise("AttributeError")
     ELSE Only({Only({IF st.exc # "none" THEN Raise(st.exc)
                      ELSE IF df.exc # "none" THEN Raise(df.exc)
                      ELSE IF challan_info.t # "dict" THEN Raise("AttributeError")
                      ELSE [exc |-> "none", skip |-> FALSE,
                            row |-> Row(challan_info, item, strip(d0.s), weight_received,
                                        st.status, df.difference,
                                        current_date, current_timestamp)] :
                      st \in {Status(weight_received)},
                      df \in {Difference(item, weight_received)}}) :
                weight_received \in
                  {IF strip(w0.s) = EmptyText THEN ZeroText ELSE strip(w0.s)}})

\* the loop of lines 223-265 from item i on, rows holding the rows so far
RECURSIVE DeriveRows(_, _, _, _, _, _)
DeriveRows(items, i, rows, challan_info, current_date, current_timestamp) ==
  IF i > Len(items) THEN [exc |-> "none", rows |-> rows]
  ELSE Only({IF r.exc # "none" THEN [exc |-> r.exc, rows |-> <<>>]
             ELSE Only({DeriveRows(items, i + 1, next, challan_info,
                                   current_date, current_timestamp) :
                        next \in {IF r.skip THEN rows ELSE Append(rows, r.row)}}) :
             r \in {DeriveItem(items[i], challan_info, current_date, current_timestamp)}})

EmptyDict == [challan_number |-> Absent, vendor_name |-> Absent, date |-> Absent]

\* lines 212-290: the payload built from the document and two readings of
\* the clock, or the exception that leaves the function before any POST
BuildPayload(data, secret_key, now1, now2) ==
  LET challan_info == IF data.challan_info.t = "absent"
                        THEN [t |-> "dict", d |-> EmptyDict] ELSE data.challan_info
      table_data == IF data.table_data.t = "absent"
                      THEN [t |-> "list", l |-> <<>>] ELSE data.table_data
  IN Only({Only({IF loop.exc # "none"
                   THEN [exc |-> loop.exc, key |-> secret_key, data |-> <<>>]
                 ELSE IF loop.rows # <<>>
                   THEN [exc |-> "none", key |-> secret_key, data |-> loop.rows]
                 ELSE IF challan_info.t # "dict"
                   THEN [exc |-> "AttributeError", key |-> secret_key, data |-> <<>>]
                 ELSE [exc |-> "none", key |-> secret_key,
                       data |-> <<FallbackRow(challan_info, current_date,
                                              current_timestamp)>>] :
                 loop \in {IF table_data.t # "list"
                             THEN [exc |-> "TypeError", rows |-> <<>>]
                           ELSE DeriveRows(table_data.l, 1, <<>>, challan_info,
                                           current_date, current_timestamp)}}) :
           current_date \in {FormatDate(now1)},
           current_timestamp \in {FormatTimestamp(now2)}})

\* ------------------------------------------------------------- documents

Item(d, ws, wr, nb, pc) ==
  [description |-> d, weight_sent |-> ws, weight_received |-> wr,
   number_of_bags |-> nb, plating_color |-> pc]

\* a key of the document that is missing, or whose value is null
Missing == [t |-> "absent", d |-> EmptyDict, l |-> <<>>]

Null == [t |-> "null", d |-> EmptyDict, l |-> <<>>]

\* the object json.loads returns; extra: it holds keys other than the two read
Doc(ci, td, extra) == [challan_info |-> ci, table_data |-> td, extra |-> extra]

ChallanInfo(cn, vn, dt) ==
  [t |-> "dict", d |-> [challan_number |-> cn, vendor_name |-> vn, date |-> dt], l |-> <<>>]

TableData(l) == [t |-> "list", d |-> EmptyDict, l |-> l]

J1 == <<"J", "1">>

V1 == <<"V", "1">>

Bolt == <<"B", "o", "l", "t">>

Zinc == <<"Z", "i", "n", "c">>

InfoJ1 == ChallanInfo(JStr(J1), JStr(V1), JStr(<<"2", "0", "2", "4", "-", "0", "1", "-", "0", "1">>))

DescriptionTexts == {Bolt, <<" ", "N", "u", "t", " ">>, EmptyText}

WeightSentTexts == {EmptyText, <<" ">>, <<"1", "0">>, <<" ", "1", "0">>, <<"4", ".", "5">>, <<"N", "/", "A">>}

WeightReceivedTexts == {EmptyText, <<" ">>, ZeroText, <<"4">>, <<"4", ".", "5">>, <<"-", "4">>, <<"0", ".", "0">>, <<"N", "/", "A">>}

TextItems ==
  {Item(JStr(d), JStr(ws), JStr(wr), JStr(<<"2">>), JStr(Zinc)) :
     d \in DescriptionTexts, ws \in WeightSentTexts, wr \in WeightReceivedTexts}

\* what the vision service may put where a string was asked for
OddValues == {JNum(2), JNull, Absent}

BaseItem == Item(JStr(Bolt), JStr(<<"1", "0">>), JStr(<<"4">>), JStr(<<"2">>), JStr(Zinc))

ItemKeys == {"description", "weight_sent", "weight_received", "number_of_bags", "plating_color"}

OddItems == {[BaseItem EXCEPT ![f] = v] : f \in ItemKeys, v \in OddValues}

NutItem == Item(JStr(<<"N", "u", "t">>), JStr(<<"4">>), JStr(<<"4">>), JStr(<<"1">>), JStr(EmptyText))

BlankItem == Item(JStr(<<" ">>), JStr(<<"4">>), JStr(EmptyText), JStr(<<"1">>), JStr(Zinc))

PlainItems == {NutItem, BlankItem}

PlainTables(n) == SeqsUpTo(PlainItems, n)

InsertAt(s, i, x) == SubSeq(s, 1, i - 1) \o <<x>> \o SubSeq(s, i, Len(s))

\* the tables of at most MaxItems line items: plain items around at most one
\* item of the wide sets
Tables ==
  PlainTables(MaxItems) \cup
  UNION {{InsertAt(s, i, w) : w \in TextItems \cup OddItems, i \in 1..(Len(s) + 1)} :
           s \in PlainTables(MaxItems - 1)}

OddInfos ==
  {Missing, Null,
   ChallanInfo(JNum(7), Absent, Absent),
   ChallanInfo(JNull, JStr(V1), Absent)}

Documents ==
  {Doc(InfoJ1, TableData(l), FALSE) : l \in Tables} \cup
  {Doc(ci, TableData(l), FALSE) : ci \in OddInfos, l \in PlainTables(1)} \cup
  {Doc(ci, td, x) : ci \in {InfoJ1, Missing}, td \in {Missing, Null}, x \in BOOLEAN}

\* ----------------------------------------------------- main: the review pane

NotAvailable == JStr(<<"N", "/", "A">>)

\* lines 522-527: the three values of the "Challan Information" table
ReviewInfo(data) ==
  LET challan_info == IF data.challan_info.t = "absent" THEN EmptyDict
                      ELSE data.challan_info.d
  IN [key \in {"challan_number", "vendor_name", "date"} |->
        Get(challan_info, key, NotAvailable)]

\* bool(extracted_data) of line 507: a dict is true unless it is empty
Truthy(data) ==
  data.challan_info.t # "absent" \/ data.table_data.t # "absent" \/ data.extra

\* lines 516-555: the exception the review pane raises on the stored
\* document, "none" when it renders down to the Send button
RenderExc(data) ==
  IF data.challan_info.t = "null" THEN "AttributeError"
  ELSE IF data.table_data.t = "list" /\
          \E i \in 1..Len(data.table_data.l) :
             Get(data.table_data.l[i], "description", JStr(EmptyText)).t # "str"
    THEN "AttributeError"
  ELSE "none"

\* line 569: len(table_data) if table_data else 1
InfoRows(data) ==
  IF data.table_data.t = "list" /\ data.table_data.l # <<>>
    THEN Len(data.table_data.l) ELSE 1

\* --------------------------------- send_to_google_sheets: POST and outcome

\* "marker in response_text", the text taken as a sequence of chunks
Contains(response_text, marker) ==
  \E i \in 1..Len(response_text) : response_text[i] = marker

Outcome(success, kind, body, n) ==
  [success |-> success, outcome |-> kind, body |-> body, message_rows |-> n]

\* the classification with the Unauthorized test moved to the front
ClassifyAuthFirst(response_text, rows) ==
  IF Contains(response_text, "Unauthorized")
    THEN Outcome(FALSE, "AuthRejected", <<>>, 0)
  ELSE IF Contains(response_text, "Success")
    THEN Outcome(TRUE, "Success", <<>>, Len(rows))
  ELSE IF Contains(response_text, "Invalid data format")
    THEN Outcome(FALSE, "FormatRejected", <<>>, 0)
  ELSE IF Contains(response_text, "No postData received")
    THEN Outcome(FALSE, "EmptyPayloadRejected", <<>>, 0)
  ELSE Outcome(FALSE, "UnknownResponse", response_text, 0)

\* lines 314-324
Classify(response_text, rows) ==
  IF Contains(response_text, "Success")
    THEN Outcome(TRUE, "Success", <<>>, Len(rows))
  ELSE IF Contains(response_text, "Unauthorized")
    THEN Outcome(FALSE, "AuthRejected", <<>>, 0)
  ELSE IF Contains(response_text, "Invalid data format")
    THEN Outcome(FALSE, "FormatRejected", <<>>, 0)
  ELSE IF Contains(response_text, "No postData received")
    THEN Outcome(FALSE, "EmptyPayloadRejected", <<>>, 0)
  ELSE Outcome(FALSE, "UnknownResponse", response_text, 0)

\* response.raise_for_status(), line 311: HTTPError on a 4xx or 5xx status
RaisesForStatus(status) == 400 <= status /\ status < 600

\* the except clauses with RequestException tried before its subclass Timeout
PostOutcomeTimeoutShadowed(response, rows) ==
  IF response.kind \in {"Timeout", "ConnectionError"}
    THEN Outcome(FALSE, "NetworkError", <<>>, 0)
  ELSE IF response.kind = "Exception" THEN Outcome(FALSE, "UnexpectedError", <<>>, 0)
  ELSE IF 400 <= response.status /\ response.status < 600
    THEN Outcome(FALSE, "NetworkError", <<>>, 0)
  ELSE Classify(response.text, rows)

\* lines 292-331: what the one requests.post call and its answer come to
PostOutcome(response, rows) ==
  IF response.kind = "Timeout" THEN Outcome(FALSE, "Timeout", <<>>, 0)
  ELSE IF response.kind = "ConnectionError" THEN Outcome(FALSE, "NetworkError", <<>>, 0)
  ELSE IF response.kind = "Exception" THEN Outcome(FALSE, "UnexpectedError", <<>>, 0)
  ELSE IF RaisesForStatus(response.status) THEN Outcome(FALSE, "NetworkError", <<>>, 0)
  ELSE Classify(response.text, rows)

\* lines 300-305: the requests.post calls of one run of
\* send_to_google_sheets, each with the answer it met
Posts(script_url, payload, response) ==
  <<[url |-> script_url, key |-> payload.key, data |-> payload.data,
     response |-> response]>>

Http(status, text) == [kind |-> "http", status |-> status, text |-> text]

Failure(kind) == [kind |-> kind, status |-> 0, text |-> <<>>]

BodyChunks ==
  {"Success", "Unauthorized", "Invalid data format", "No postData received", "success"}

ResponseTexts == SeqsUpTo(BodyChunks, MaxChunks)

ErrorStatuses == {304, 401, 500}

\* what the one POST can meet: an answer of any status and text, a
\* timeout, another requests exception, an exception of another kind
Responses ==
  {Http(200, b) : b \in ResponseTexts} \cup
  {Http(st, b) : st \in ErrorStatuses, b \in {<<>>, <<"Success">>, <<"success">>}} \cup
  {Failure("Timeout"), Failure("ConnectionError"), Failure("Exception")}

\* the answers the session of Spec meets
SessionResponses ==
  {Http(200, <<"Success">>), Http(200, <<"Unauthorized">>), Http(200, <<"success">>),
   Http(500, <<>>), Failure("Timeout"), Failure("ConnectionError")}

\* ---------------------------------------------- analyze_image_with_gemini

Chunk(c) == [c |-> c, doc |-> Doc(Missing, Missing, FALSE)]

\* the text of a JSON object between its outer braces
Body(data) == [c |-> "body", doc |-> data]

Indexes(content, c) == {i \in 1..Len(content) : content[i].c = c}

Min(S) == CHOOSE x \in S : \A y \in S : x <= y

Max(S) == CHOOSE x \in S : \A y \in S : x >= y

\* line 172: response.text.strip(), the text without the whitespace chunks
\* at its two ends
StripText(text) ==
  IF Indexes(text, " ") = DOMAIN text THEN <<>>
  ELSE SubSeq(text, Min(DOMAIN text \ Indexes(text, " ")),
              Max(DOMAIN text \ Indexes(text, " ")))

\* content.find(c): the 0-based index of the first c, or -1
find(content, c) ==
  IF Indexes(content, c) = {} THEN 0 - 1 ELSE Min(Indexes(content, c)) - 1

\* content.rfind(c): the 0-based index of the last c, or -1
rfind(content, c) ==
  IF Indexes(content, c) = {} THEN 0 - 1 ELSE Max(Indexes(content, c)) - 1

\* content[a:b] for 0 <= a, 0 <= b
Slice(content, a, b) == SubSeq(content, a + 1, b)

\* json.loads: an object around one body, or the empty object
Loads(json_str) ==
  IF Len(json_str) = 3 /\ json_str[1].c = "{" /\ json_str[2].c = "body" /\
     json_str[3].c = "}"
    THEN [exc |-> "none", data |-> json_str[2].doc]
  ELSE IF Len(json_str) = 2 /\ json_str[1].c = "{" /\ json_str[2].c = "}"
    THEN [exc |-> "none", data |-> Doc(Missing, Missing, FALSE)]
  ELSE [exc |-> "JSONDecodeError", data |-> Doc(Missing, Missing, FALSE)]

Extracted(error, data) == [error |-> error, data |-> data]

NoData == Doc(Missing, Missing, FALSE)

\* lines 113-206: the dict returned, or the error shown with None returned
analyze_image_with_gemini(response) ==
  IF response.kind = "error" THEN Extracted(response.error, NoData)
  ELSE IF response.text = <<>> THEN Extracted("NoResponse", NoData)
  ELSE LET content == StripText(response.text)
           start_idx == find(content, "{")
           end_idx == rfind(content, "}") + 1
       IN IF start_idx # 0 - 1 /\ end_idx # 0 - 1
            THEN Only({IF r.exc = "none" THEN Extracted("none", r.data)
                       ELSE Extracted("MalformedJson", NoData) :
                       r \in {Loads(Slice(content, start_idx, end_idx))}})
          ELSE Extracted("NoJsonFound", NoData)

ApiErrors == {"AuthRejected", "QuotaExceeded", "ModelUnavailable", "ContentRejected", "Unknown"}

VisionTexts(docs) ==
  {<<Chunk("{"), Body(d), Chunk("}")>> : d \in docs} \cup
  {<<Chunk("prose"), Chunk("{"), Body(d), Chunk("}"), Chunk("prose")>> : d \in docs} \cup
  {<<>>, <<Chunk("prose")>>, <<Chunk("{"), Chunk("}")>>, <<Chunk("}"), Chunk("{")>>,
   <<Chunk(" ")>>, <<Chunk(" "), Chunk("{"), Chunk("}"), Chunk(" ")>>,
   <<Chunk("{"), Chunk("prose")>>, <<Chunk("prose"), Chunk("}")>>}

\* response.text of line 167 as generate_content returned it
VisionText(text) == [kind |-> "text", text |-> text, error |-> "none"]

VisionResponses(docs) ==
  {VisionText(tx) : tx \in VisionTexts(docs)} \cup
  {[kind |-> "error", text |-> <<>>, error |-> e] : e \in ApiErrors}

\* ------------------------------------------------------ the session (main)

VARIABLES
  uploaded_file,   \* the file the uploader widget holds, "none" without one
  session_state,   \* st.session_state: has <=> 'extracted_data' in it
  now,             \* the wall clock
  posted,          \* the requests.post calls of the last script run
  result,          \* what the last script run showed the user
  generated,       \* the generate_content calls of the last script run
  latest,          \* history: what the most recent successful analysis returned
  genai,           \* the api_key genai.configure left in the genai module
  threads          \* the script run of each session of the process

vars == <<uploaded_file, session_state, now, posted, result, generated, latest,
          genai, threads>>

\* the state of one session
sessionVars == <<uploaded_file, session_state, now, posted, result, generated, latest>>

\* the sessions the Streamlit process serves, each on a thread of its own
Sessions == {1, 2}

\* a script run at rest, or inside analyze_image_with_gemini or
\* test_gemini_api_key: the handler it runs, the key it was given, the
\* line it has passed and the key its generate_content request carried
Thread(pc, handler, api_key, used) ==
  [pc |-> pc, handler |-> handler, api_key |-> api_key, used |-> used]

IdleThread == Thread("idle", "none", "none", "none")

\* a call of generate_content: the key it carried and the answer it met
Generated(api_key, response) == <<[api_key |-> api_key, response |-> response]>>

\* the document of the most recent analysis that main took for a success
\* (line 508), and whether an analysis has been taken for a failure since
Latest(has, data, failed) == [has |-> has, data |-> data, failed |-> failed]

Images == {"img1", "img2"}

ApiKeys == {"", "key"}

ScriptUrl == <<"h", "t", "t", "p", "s", ":", "/", "/", "s", "c", "r", "i", "p", "t", "/", "e", "x", "e", "c">>

ScriptUrls == {EmptyText, ScriptUrl}

SecretKey == <<"a", "b", "c", "1", "2", "3">>

TimesOfDay == {36000, 86399}

Instants == {Instant(d, s) : d \in 2..MaxDay, s \in TimesOfDay}

Later(a, b) == a.day > b.day \/ (a.day = b.day /\ a.sod > b.sod)

Shown(handler, success, outcome, body, message_rows, info_rows, exc) ==
  [handler |-> handler, success |-> success, outcome |-> outcome, body |-> body,
   message_rows |-> message_rows, info_rows |-> info_rows, exc |-> exc]

Idle(handler) == Shown(handler, FALSE, "none", <<>>, 0, 0, "none")

\* the documents the session of Spec extracts
SessionDocuments ==
  {Doc(InfoJ1, TableData(<<BaseItem>>), FALSE),
   Doc(InfoJ1, TableData(<<NutItem, BlankItem, BaseItem>>), FALSE),
   Doc(InfoJ1, TableData(<<>>), FALSE),
   Doc(Missing, Missing, TRUE),
   Doc(InfoJ1, TableData(<<[BaseItem EXCEPT !.weight_received = JNum(2)]>>), FALSE),
   Doc(ChallanInfo(JNum(7), Absent, Absent),
       TableData(<<[BaseItem EXCEPT !.number_of_bags = JNum(2)]>>), FALSE)}

Init ==
  /\ uploaded_file = "none"
  /\ session_state = [has |-> FALSE, extracted_data |-> NoData]
  /\ now = Instant(2, 36000)
  /\ posted = <<>>
  /\ result = Idle("start")
  /\ generated = <<>>
  /\ latest = Latest(FALSE, NoData, FALSE)
  /\ genai = "none"
  /\ threads = [s \in Sessions |-> IdleThread]

\* line 220: what datetime.now() returns when line 219 read t
SecondReadings(t) == IF t \in Instants THEN {t, SecondLater(t)} ELSE {t}

\* lines 483-497: the user puts a file into the uploader, or takes it out
Upload(file) ==
  /\ file # uploaded_file
  /\ uploaded_file' = file
  /\ posted' = <<>>
  /\ result' = Idle("upload")
  /\ generated' = <<>>
  /\ UNCHANGED <<session_state, now, latest, genai, threads>>

\* Analyze with a failed analysis dropping the stored document
AnalyzeDropsOnFailure(gemini_api_key, response) ==
  /\ uploaded_file # "none"
  /\ posted' = <<>>
  /\ UNCHANGED <<uploaded_file, now, threads>>
  /\ IF gemini_api_key = ""
       THEN /\ result' = Shown("analyze", FALSE, "NoApiKey", <<>>, 0, 0, "none")
            /\ generated' = <<>>
            /\ UNCHANGED <<session_state, latest, genai>>
     ELSE \E extracted_data \in {analyze_image_with_gemini(response)} :
          LET stored == extracted_data.error = "none" /\ Truthy(extracted_data.data)
          IN /\ genai' = gemini_api_key
             /\ generated' = Generated(genai', response)
             /\ latest' = IF stored THEN Latest(TRUE, extracted_data.data, FALSE)
                          ELSE Latest(latest.has, latest.data, TRUE)
             /\ session_state' =
                  IF stored THEN [has |-> TRUE, extracted_data |-> extracted_data.data]
                  ELSE [has |-> FALSE, extracted_data |-> NoData]
             /\ result' = Shown("analyze", stored, extracted_data.error, <<>>, 0, 0,
                                IF session_state'.has
                                  THEN RenderExc(session_state'.extracted_data)
                                  ELSE "none")

\* lines 500-511: a click on "Analyze with Gemini AI"
Analyze(gemini_api_key, response) ==
  /\ uploaded_file # "none"
  /\ posted' = <<>>
  /\ UNCHANGED <<uploaded_file, now, threads>>
  /\ IF gemini_api_key = ""
       THEN /\ result' = Shown("analyze", FALSE, "NoApiKey", <<>>, 0, 0, "none")
            /\ generated' = <<>>
            /\ UNCHANGED <<session_state, latest, genai>>
     ELSE \E extracted_data \in {analyze_image_with_gemini(response)} :
          LET stored == extracted_data.error = "none" /\ Truthy(extracted_data.data)
          IN /\ genai' = gemini_api_key
             /\ generated' = Generated(genai', response)
             /\ latest' = IF stored THEN Latest(TRUE, extracted_data.data, FALSE)
                          ELSE Latest(latest.has, latest.data, TRUE)
             /\ session_state' =
                  IF stored THEN [has |-> TRUE, extracted_data |-> extracted_data.data]
                  ELSE session_state
             /\ result' = Shown("analyze", stored, extracted_data.error, <<>>, 0, 0,
                                IF session_state'.has
                                  THEN RenderExc(session_state'.extracted_data)
                                  ELSE "none")

\* lines 559-571 with send_to_google_sheets, lines 208-331: a click on
\* "Send to Google Sheets", a button the review pane draws after the
\* document (lines 516-558).  The clock is read at line 219 and again at
\* line 220; the second reading may fall in the next second, which the
\* model follows at the instants of Instants.
Send(script_url, responses, now2) ==
  /\ session_state.has
  /\ RenderExc(session_state.extracted_data) = "none"
  /\ now2 \in SecondReadings(now)
  /\ now' = now2
  /\ generated' = <<>>
  /\ UNCHANGED <<uploaded_file, session_state, latest, genai, threads>>
  /\ IF script_url = EmptyText
       THEN /\ posted' = <<>>
            /\ result' = Shown("send", FALSE, "NoScriptUrl", <<>>, 0, 0, "none")
     ELSE \E payload \in {BuildPayload(session_state.extracted_data, SecretKey,
                                         now, now2)} :
            IF payload.exc # "none"
              THEN /\ posted' = <<>>
                   /\ result' = Shown("send", FALSE, "Raised", <<>>, 0, 0, payload.exc)
            ELSE \E response \in responses :
                   \E out \in {PostOutcome(response, payload.data)} :
                     /\ posted' = Posts(script_url, payload, response)
                     /\ result' = Shown("send", out.success, out.outcome, out.body,
                                        out.message_rows,
                                        IF out.success
                                          THEN InfoRows(session_state.extracted_data)
                                          ELSE 0,
                                        "none")

\* time passes between two script runs
Tick(t) ==
  /\ Later(t, now)
  /\ now' = t
  /\ UNCHANGED <<uploaded_file, session_state, posted, result, generated, latest,
                 genai, threads>>

Next ==
  \/ \E file \in Images \cup {"none"} : Upload(file)
  \/ \E k \in ApiKeys, r \in VisionResponses(SessionDocuments) : Analyze(k, r)
  \/ \E u \in ScriptUrls, t \in SecondReadings(now) : Send(u, SessionResponses, t)
  \/ \E t \in Instants : Tick(t)

Spec == Init /\ [][Next]_vars

\* The rows of send_to_google_sheets over the wide set of documents: the
\* session holds any document an extraction can leave in it, and the Send
\* button is clicked with the endpoint answering "Success".

InitRows ==
  /\ uploaded_file = "img1"
  /\ \E d \in Documents :
       /\ Truthy(d)
       /\ session_state = [has |-> TRUE, extracted_data |-> d]
       /\ result = Shown("analyze", TRUE, "none", <<>>, 0, 0, RenderExc(d))
       /\ generated = Generated("key", VisionText(<<Chunk("{"), Body(d), Chunk("}")>>))
       /\ latest = Latest(TRUE, d, FALSE)
  /\ genai = "key"
  /\ threads = [s \in Sessions |-> IdleThread]
  /\ now \in {Instant(2, s) : s \in TimesOfDay}
  /\ posted = <<>>

NextRows ==
  \E t \in SecondReadings(now) : Send(ScriptUrl, {Http(200, <<"Success">>)}, t)

SpecRows == InitRows /\ [][NextRows]_vars

\* The POST of send_to_google_sheets against every answer of Responses: the
\* session holds a document whose rows build or one whose rows raise, and
\* the Send button is clicked, with and without a script URL, as time passes.
PostDocuments ==
  {Doc(InfoJ1, TableData(<<BaseItem>>), FALSE),
   Doc(InfoJ1, TableData(<<>>), FALSE),
   Doc(InfoJ1, TableData(<<[BaseItem EXCEPT !.weight_received = JNum(2)]>>), FALSE)}

InitPost ==
  /\ uploaded_file = "img1"
  /\ \E d \in PostDocuments :
       /\ session_state = [has |-> TRUE, extracted_data |-> d]
       /\ result = Shown("analyze", TRUE, "none", <<>>, 0, 0, RenderExc(d))
       /\ generated = Generated("key", VisionText(<<Chunk("{"), Body(d), Chunk("}")>>))
       /\ latest = Latest(TRUE, d, FALSE)
  /\ genai = "key"
  /\ threads = [s \in Sessions |-> IdleThread]
  /\ now = Instant(2, 36000)
  /\ posted = <<>>

NextPost ==
  \/ \E u \in ScriptUrls, t \in SecondReadings(now) : Send(u, Responses, t)
  \/ \E t \in Instants : Tick(t)

SpecPost == InitPost /\ [][NextPost]_vars

\* ------------------------------------------- two sessions in one process

\* Streamlit runs the script of every session on a thread of the one
\* server process, and the genai module is imported once: what
\* genai.configure stores is shared by the sessions.  A script run inside
\* analyze_image_with_gemini or test_gemini_api_key is followed line by line,
\* the threads taking turns in any order.

GeminiKeys == {"keyA", "keyB"}

Handlers == {"analyze_image_with_gemini", "test_gemini_api_key"}

\* line 115 (line 88): genai.configure(api_key=api_key)
configure(s, handler, api_key) ==
  /\ threads[s].pc = "idle"
  /\ genai' = api_key
  /\ threads' = [threads EXCEPT ![s] = Thread("configured", handler, api_key, "none")]
  /\ UNCHANGED sessionVars

\* line 118 (line 91): genai.GenerativeModel(model), which sends nothing
GenerativeModel(s) ==
  /\ threads[s].pc = "configured"
  /\ threads' = [threads EXCEPT ![s].pc = "model"]
  /\ UNCHANGED <<sessionVars, genai>>

\* line 165 (line 92): generate_content, the request carrying the key the
\* genai module holds at this moment
generate_content(s) ==
  /\ threads[s].pc = "model"
  /\ threads' = [threads EXCEPT ![s].pc = "generated", ![s].used = genai]
  /\ UNCHANGED <<sessionVars, genai>>

\* the handler returns and the script run ends
Return(s) ==
  /\ threads[s].pc = "generated"
  /\ threads' = [threads EXCEPT ![s] = IdleThread]
  /\ UNCHANGED <<sessionVars, genai>>

NextProcess ==
  \/ \E s \in Sessions, h \in Handlers, k \in GeminiKeys : configure(s, h, k)
  \/ \E s \in Sessions : GenerativeModel(s)
  \/ \E s \in Sessions : generate_content(s)
  \/ \E s \in Sessions : Return(s)

SpecProcess == Init /\ [][NextProcess]_vars

\* ============================================================ properties

\* a run of send_to_google_sheets that reached its POST
Sent == result.handler = "send" /\ posted # <<>>

Payload == posted[1].data

Answer == posted[1].response

Data == session_state.extracted_data

LineItems == IF Data.table_data.t = "list" THEN Data.table_data.l ELSE <<>>

\* a field of a line item, an absent one reading as the empty string
Field(item, key) == IF item[key].t = "absent" THEN JStr(<<>>) ELSE item[key]

InfoField(key) ==
  IF Data.challan_info.t = "dict" /\ Data.challan_info.d[key].t # "absent"
    THEN Data.challan_info.d[key] ELSE JStr(<<>>)

Whitespace == {" ", "\t", "\n"}

\* empty or whitespace-only
Blank(text) == \A i \in 1..Len(text) : text[i] \in Whitespace

\* t is s without its leading and trailing whitespace
IsTrimOf(t, s) ==
  /\ t = <<>> \/ (t[1] \notin Whitespace /\ t[Len(t)] \notin Whitespace)
  /\ \E a \in 0..Len(s) :
       /\ a + Len(t) <= Len(s)
       /\ SubSeq(s, a + 1, a + Len(t)) = t
       /\ Blank(SubSeq(s, 1, a))
       /\ Blank(SubSeq(s, a + Len(t) + 1, Len(s)))

HasDescription(item) ==
  Field(item, "description").t = "str" /\ ~Blank(Field(item, "description").s)

\* the line items with a non-empty description, in the order of table_data
Kept == SelectSeq(LineItems, HasDescription)

FallbackShape(row, weight_received) ==
  /\ Len(row) = 13
  /\ row[1] = InfoField("challan_number")
  /\ row[2] = InfoField("vendor_name")
  /\ row[3] = JStr(<<>>)
  /\ row[4] = JStr(<<>>)
  /\ row[5] = JStr(weight_received)
  /\ row[6] = JStr(<<"N", "o", "t", " ", "R", "e", "c", "e", "i", "v", "e", "d">>)
  /\ row[8] = JStr(<<"0">>)
  /\ row[9] = JStr(<<>>)
  /\ row[10] = JStr(<<>>)

AtLeastOneRow(weight_received) ==
  Sent =>
    /\ Len(Payload) >= 1
    /\ IF Kept = <<>>
         THEN Len(Payload) = 1 /\ FallbackShape(Payload[1], weight_received)
         ELSE /\ Len(Payload) = Len(Kept)
              /\ \A i \in 1..Len(Payload) : Payload[i][3] # JStr(<<>>)

\* C1 (as amended): every payload carries at least one row; without a line
\* item of non-empty description it is the one fallback row with the
\* document's challan_number and vendor_name, empty item, weight_sent, bag
\* and colour fields, weight_received "0", status "Not Received" and
\* difference "0"; otherwise one row per such line item and no fallback row.
C1_PayloadNeverEmpty == AtLeastOneRow(<<"0">>)

\* C1 (as claimed): the same with both weight fields of the fallback row empty.
C1_FallbackWeightsEmpty == AtLeastOneRow(<<>>)

C1_Witness == Sent /\ LineItems # <<>> /\ Kept = <<>> /\ Len(Payload) = 1

\* C2: the rows are the line items of non-empty trimmed description, in the
\* order of table_data, each with its trimmed description.
C2_RowsAreKeptItemsInOrder ==
  Sent /\ Kept # <<>> =>
    /\ Len(Payload) = Len(Kept)
    /\ \A i \in 1..Len(Kept) :
         /\ Payload[i][3].t = "str"
         /\ IsTrimOf(Payload[i][3].s, Field(Kept[i], "description").s)
         /\ Payload[i][4] = Field(Kept[i], "weight_sent")
         /\ Payload[i][9] = Field(Kept[i], "number_of_bags")
         /\ Payload[i][10] = Field(Kept[i], "plating_color")

C2_Witness ==
  /\ Sent
  /\ Len(LineItems) = 3
  /\ Len(Kept) = 2
  /\ Kept[1] # Kept[2]
  /\ \E i \in 1..2 : Payload[i][3].s # Field(Kept[i], "description").s

\* the text parses as a number greater than zero
PositiveNumber(text) == float(text).exc = "none" /\ float(text).v.n > 0

\* C3: a row's status is "Received" exactly when its weight_received parses
\* as a number greater than 0, and "Not Received" otherwise; an empty or
\* whitespace-only weight_received is emitted as "0"; the status computation
\* lets no ValueError out.
C3_StatusIffPositiveWeight ==
  /\ result.handler = "send" => result.exc # "ValueError"
  /\ Sent /\ Kept # <<>> =>
       \A i \in 1..Len(Kept) :
         LET w == Field(Kept[i], "weight_received").s
         IN /\ Payload[i][6] \in {JStr(<<"R", "e", "c", "e", "i", "v", "e", "d">>), JStr(<<"N", "o", "t", " ", "R", "e", "c", "e", "i", "v", "e", "d">>)}
            /\ (Payload[i][6] = JStr(<<"R", "e", "c", "e", "i", "v", "e", "d">>)) <=> PositiveNumber(w)
            /\ Blank(w) => Payload[i][5] = JStr(<<"0">>)
            /\ ~Blank(w) => IsTrimOf(Payload[i][5].s, w)

C3_Witness ==
  /\ Sent
  /\ \E i \in 1..Len(Kept) :
       /\ Field(Kept[i], "weight_received").s = <<"-", "4">>
       /\ Payload[i][6] = JStr(<<"N", "o", "t", " ", "R", "e", "c", "e", "i", "v", "e", "d">>)
  /\ \E i \in 1..Len(Kept) :
       /\ Field(Kept[i], "weight_received").s = <<"4">>
       /\ Payload[i][6] = JStr(<<"R", "e", "c", "e", "i", "v", "e", "d">>)

\* empty, or a text float() accepts
NumericText(text) == Blank(text) \/ float(text).exc = "none"

ValueOf(text) == IF Blank(text) THEN PyInt(0) ELSE float(text).v

\* d = a - b, on numbers n / 10^k
IsDifference(d, a, b) ==
  d.n * Pow10(a.k) * Pow10(b.k) = (a.n * Pow10(b.k) - b.n * Pow10(a.k)) * Pow10(d.k)

\* C4: with weight_sent and weight_received both numeric text (empty counting
\* as 0) the difference field is a text that reads as weight_sent minus
\* weight_received; with either of them non-numeric it is "0".
C4_DifferenceIsSentMinusReceived ==
  Sent /\ Kept # <<>> =>
    \A i \in 1..Len(Kept) :
      LET ws == Field(Kept[i], "weight_sent").s
          wr == Field(Kept[i], "weight_received").s
          d == Payload[i][8]
      IN /\ d.t = "str"
         /\ IF NumericText(ws) /\ NumericText(wr)
              THEN /\ float(d.s).exc = "none"
                   /\ IsDifference(float(d.s).v, ValueOf(ws), ValueOf(wr))
              ELSE d = JStr(<<"0">>)

C4_Witness ==
  /\ Sent
  /\ \E i \in 1..Len(Kept) :
       /\ Field(Kept[i], "weight_sent").s = <<"1", "0">>
       /\ Field(Kept[i], "weight_received").s = <<"4", ".", "5">>
       /\ Payload[i][8] = JStr(<<"5", ".", "5">>)
  /\ \E i \in 1..Len(Kept) : Field(Kept[i], "weight_sent").s = <<"4">>

DocumentJ1(weight_received) ==
  Doc(InfoJ1,
      TableData(<<Item(JStr(Bolt), JStr(<<"1", "0">>), JStr(weight_received), JStr(<<"2">>),
                       JStr(Zinc))>>),
      FALSE)

RowJ1(weight_received, status, difference) ==
  <<JStr(J1), JStr(V1), JStr(Bolt), JStr(<<"1", "0">>), JStr(weight_received), JStr(status),
    JStr(<<>>), JStr(difference), JStr(<<"2">>), JStr(Zinc), JStr(<<>>),
    JStr(<<"2", "0", "2", "4", "-", "0", "1", "-", "0", "2">>), JStr(<<"2", "0", "2", "4", "-", "0", "1", "-", "0", "2", " ", "1", "0", ":", "0", "0", ":", "0", "0">>)>>

\* the run read the clock at 2024-01-02 10:00:00, both times
AtTen == now = Instant(2, 36000)

ExampleJ1(difference10, difference6) ==
  /\ Sent /\ AtTen /\ Data = DocumentJ1(<<>>) =>
       Payload = <<RowJ1(<<"0">>, <<"N", "o", "t", " ", "R", "e", "c", "e", "i", "v", "e", "d">>, difference10)>>
  /\ Sent /\ AtTen /\ Data = DocumentJ1(<<"4">>) =>
       Payload = <<RowJ1(<<"4">>, <<"R", "e", "c", "e", "i", "v", "e", "d">>, difference6)>>

\* C5 (as amended): document J1/V1 with the one line item Bolt, 10, "", 2,
\* Zinc at 2024-01-02 10:00:00 gives the one row of the claim with the
\* difference written "10.0"; with weight_received "4" the row has status
\* "Received" and difference "6.0".
C5_ExampleRow == ExampleJ1(<<"1", "0", ".", "0">>, <<"6", ".", "0">>)

\* C5 (as claimed): the differences written "10" and "6".
C5_ExampleRowAsClaimed == ExampleJ1(<<"1", "0">>, <<"6">>)

C5_Witness == Sent /\ AtTen /\ Data = DocumentJ1(<<>>) /\ Len(Payload) = 1

\* C6: every row of every posted payload is an array of 13 strings, the
\* document's challan_number and vendor_name first, remarks and photo_link
\* empty, date and timestamp last.
C6_RowsAreThirteenStrings ==
  Sent =>
    \A i \in 1..Len(Payload) :
      /\ Len(Payload[i]) = 13
      /\ \A j \in 1..13 : Payload[i][j].t = "str"
      /\ Payload[i][7] = JStr(<<>>)
      /\ Payload[i][11] = JStr(<<>>)
      /\ Len(Payload[i][12].s) = 10
      /\ Len(Payload[i][13].s) = 19

\* C7: all rows of a payload carry the same date and timestamp, and the date
\* is the date part of the timestamp.
C7_OneClockReading ==
  Sent =>
    \A i \in 1..Len(Payload) :
      /\ Payload[i][12] = Payload[1][12]
      /\ Payload[i][13] = Payload[1][13]
      /\ Payload[i][12].s = SubSeq(Payload[i][13].s, 1, 10)

AnswerHas(marker) == \E i \in 1..Len(Answer.text) : Answer.text[i] = marker

Answered2xx == Sent /\ Answer.kind = "http" /\ 200 <= Answer.status /\ Answer.status < 300

\* C8: a 2xx answer is classified by the first of Success, Unauthorized,
\* Invalid data format, No postData received that its body contains, else as
\* an unknown response carrying the body; only Success returns true.
C8_ClassificationPriority ==
  Answered2xx =>
    /\ AnswerHas("Success") => result.outcome = "Success"
    /\ ~AnswerHas("Success") /\ AnswerHas("Unauthorized") =>
         result.outcome = "AuthRejected"
    /\ ~AnswerHas("Success") /\ ~AnswerHas("Unauthorized") /\
       AnswerHas("Invalid data format") => result.outcome = "FormatRejected"
    /\ ~AnswerHas("Success") /\ ~AnswerHas("Unauthorized") /\
       ~AnswerHas("Invalid data format") /\ AnswerHas("No postData received") =>
         result.outcome = "EmptyPayloadRejected"
    /\ ~AnswerHas("Success") /\ ~AnswerHas("Unauthorized") /\
       ~AnswerHas("Invalid data format") /\ ~AnswerHas("No postData received") =>
         result.outcome = "UnknownResponse" /\ result.body = Answer.text
    /\ result.success <=> result.outcome = "Success"

C8_Witness ==
  /\ Answered2xx
  /\ Answer.text = <<"Unauthorized", "Success">>
  /\ result.success

\* C9: a transport exception other than a timeout gives NetworkError, and an
\* answer of non-2xx status whose body holds none of the known texts gives
\* UnknownResponse.
C9_Non2xxIsUnknownResponse ==
  Sent =>
    /\ Answer.kind = "ConnectionError" => result.outcome = "NetworkError"
    /\ /\ Answer.kind = "http"
       /\ ~(200 <= Answer.status /\ Answer.status < 300)
       /\ \A marker \in {"Success", "Unauthorized", "Invalid data format",
                         "No postData received"} : ~AnswerHas(marker)
       => result.outcome = "UnknownResponse"

\* C10: a run of send_to_google_sheets that reaches its POST issues exactly
\* one, whatever the answer, and no run issues a second one; a timeout is
\* the outcome Timeout, which no other failure is.
C10_OnePostNoRetry ==
  result.handler = "send" =>
    /\ Len(posted) <= 1
    /\ result.outcome \notin {"NoScriptUrl", "Raised"} => Len(posted) = 1
    /\ Sent =>
         /\ Answer.kind = "Timeout" <=> result.outcome = "Timeout"
         /\ Answer.kind = "Timeout" => ~result.success

C10_Witness ==
  /\ Sent
  /\ Len(posted) = 1
  /\ Answer.kind = "Timeout"
  /\ result.outcome = "Timeout"


\* an analysis that called generate_content and got text back
Analyzed ==
  /\ result.handler = "analyze"
  /\ generated # <<>>
  /\ generated[1].response.kind = "text"
  /\ generated[1].response.text # <<>>

Content == generated[1].response.text

Has(c) == Indexes(Content, c) # {}

\* the substring from the first "{" to the last "}" inclusive
Candidate == SubSeq(Content, Min(Indexes(Content, "{")), Max(Indexes(Content, "}")))

Parsed == Loads(Candidate)

\* C11 (as claimed): of a response text, a missing "{" or a missing "}" is
\* reported as NoJsonFound ("Could not extract JSON"); MalformedJson is
\* reported only when both are there and the substring from the first "{"
\* to the last "}" fails to parse; a document is returned only when that
\* substring parses, and it is the parsed object.
C11_NoJsonFoundUnlessBothBraces ==
  Analyzed =>
    /\ (~Has("{") \/ ~Has("}")) => result.outcome = "NoJsonFound"
    /\ result.outcome = "MalformedJson" =>
         Has("{") /\ Has("}") /\ Parsed.exc # "none"
    /\ result.outcome = "none" =>
         Has("{") /\ Has("}") /\ Parsed.exc = "none"

\* the candidate substring of the response text parses as a JSON object
ParsesAsObject == Analyzed /\ Has("{") /\ Has("}") /\ Parsed.exc = "none"

AbsentInfo(data, key) ==
  data.challan_info.t = "absent" \/
  (data.challan_info.t = "dict" /\ data.challan_info.d[key].t = "absent")

\* C12 (as claimed): when the candidate substring parses as a JSON object
\* the extraction succeeds and the object is the stored document, whatever
\* fields it lacks, the empty object included; every challan field it lacks
\* reads as the empty string in the review pane.
C12_MissingFieldsNeverFail ==
  ParsesAsObject =>
    /\ result.success
    /\ session_state.has
    /\ Data = Parsed.data
    /\ \A key \in {"challan_number", "vendor_name", "date"} :
         AbsentInfo(Data, key) /\ RenderExc(Data) = "none" =>
           ReviewInfo(Data)[key] = JStr(<<>>)

\* C13 (as claimed): once a submission has succeeded, and once the user has
\* put a new image into the uploader, the session holds no extracted
\* document.
C13_DocumentDiscardedAfterUse ==
  /\ result.handler = "send" /\ result.success => ~session_state.has
  /\ result.handler = "upload" /\ uploaded_file # "none" => ~session_state.has

\* the instants the clock of a script run can show
Clock == Instants \cup {SecondLater(t) : t \in Instants}

\* C14: the session holds a document exactly when an analysis has succeeded,
\* and the document it holds is the one the most recent successful analysis
\* returned, failed analyses in between notwithstanding; every POST is made
\* while such a document is held and carries the rows derived from it.
C14_PostFromLatestExtraction ==
  /\ session_state.has = latest.has
  /\ latest.has => Data = latest.data
  /\ Sent =>
       /\ latest.has
       /\ \E now1 \in Clock, now2 \in Clock :
            /\ now2 \in {now1, SecondLater(now1)}
            /\ \E payload \in {BuildPayload(latest.data, SecretKey, now1, now2)} :
                 payload.exc = "none" /\ Payload = payload.data

\* a POST made after a failed analysis that followed a successful one
C14_Witness == Sent /\ latest.has /\ latest.failed

\* C15 (as claimed): after a successful submission the row count of the
\* success message and the row count of the "Sent N rows" notice both equal
\* the number of rows of the posted payload.
C15_RowCountsMatchPayload ==
  Sent /\ result.success =>
    /\ result.message_rows = Len(Payload)
    /\ result.info_rows = Len(Payload)

\* C16 (as claimed): the generate_content request of a session running
\* analyze_image_with_gemini carries the key that session passed to
\* genai.configure, whatever the other session does in between.
C16_OwnCredentialUsed ==
  \A s \in Sessions :
    threads[s].pc = "generated" /\ threads[s].handler = "analyze_image_with_gemini" =>
      threads[s].used = threads[s].api_key

====
